---- MODULE Spec2Model ----
(***************************************************************************)
(* pg_pack: the export pipeline of package core (Manager.Pack and what it  *)
(* calls), as a state machine.                                             *)
(*                                                                         *)
(* Spec     one Pack job: init, the per-schema sections, the per-table     *)
(*          producer goroutine and its unbuffered channel, finalization,   *)
(*          compression and the deferred cleanup.                          *)
(* EncSpec  one scanned row through the value encoding of                  *)
(*          broadcastTableRecordsINSERT and broadcastTableRecordsCOPY.     *)
(* SeqSpec  one row of information_schema.sequences through                *)
(*          getSequenceStatements.                                         *)
(* TabSpec  the column rows of one table through                           *)
(*          getCreateTableStatement.                                       *)
(* PathSpec two Pack jobs on one output path: init, body and cleanup of    *)
(*          each, interleaved, on the output file and the lock file.       *)
(* CompSpec the compression step on files named by their paths, for output *)
(*          filenames with and without dots.  In Spec the output filename  *)
(*          is one whose compressed path differs from it.                  *)
(*                                                                         *)
(* Text is a sequence of one-character strings where the code computes on  *)
(* it; the output script is a sequence of items, one per WriteString.      *)
(* An I/O call fails in the model exactly where Pack's control flow        *)
(* depends on its error; a call whose error Pack discards succeeds.        *)
(* A read of catalogue rows may stop on an error after any number of rows. *)
(***************************************************************************)
EXTENDS Integers, Sequences, FiniteSets, TLC

----------------------------------------------------------------------------
(* Bounds of the model *)

MaxSchemas == 2
MaxTables == 2
MaxRows == 2
MaxFKs == 1
MaxFaults == 1
MaxCols == 2
MaxStrLen == 2
MaxSegments == 3

----------------------------------------------------------------------------
(* Text helpers *)

UpperToLower ==
    [c \in {"C", "I", "N", "O", "P", "S", "Y"} |->
        CASE c = "C" -> "c" [] c = "I" -> "i" [] c = "N" -> "n" [] c = "O" -> "o"
          [] c = "P" -> "p" [] c = "S" -> "s" [] c = "Y" -> "y"]

\* a text left as it is
AsWritten(s) == s

\* strings.ToLower
ToLower(s) ==
    [i \in DOMAIN s |-> IF s[i] \in DOMAIN UpperToLower THEN UpperToLower[s[i]] ELSE s[i]]

ModeInsert == <<"i", "n", "s", "e", "r", "t">>
ModeCopy == <<"c", "o", "p", "y">>

\* the values of --record-mode the model feeds to Pack
RecordModeInputs ==
    { ModeInsert, ModeCopy, <<"C", "O", "P", "Y">>, <<"I", "n", "s", "e", "r", "t">>,
      <<"c", "s", "v">> }

----------------------------------------------------------------------------
(* The database the job reads: a black box; its catalog is fixed before the job *)

SystemSchemas == {"information_schema", "pg_catalog", "pg_toast"}

\* the rows of information_schema.schemata, in the order the query returns them:
\* a catalog of the model is a prefix of this list
SchemaOrder == <<"a", "pg_catalog", "b", "information_schema", "c", "pg_toast", "d">>
TableNames == <<"t1", "t2", "t3", "t4">>

Range(q) == {q[i] : i \in DOMAIN q}

UserSchemas(q) == Range(q) \ SystemSchemas

Catalogs ==
    {SubSeq(SchemaOrder, 1, n) : n \in {m \in 0..Len(SchemaOrder) :
        Cardinality(UserSchemas(SubSeq(SchemaOrder, 1, m))) <= MaxSchemas}}

RECURSIVE Total(_, _)
\* the sum of n over the set S
Total(n, S) ==
    IF S = {} THEN 0
    ELSE LET x == CHOOSE y \in S : TRUE IN n[x] + Total(n, S \ {x})

\* table counts: only the user schemas of the catalog hold tables, MaxTables in all
NTabs(q) ==
    {n \in [Range(SchemaOrder) -> 0..MaxTables] :
        /\ \A s \in Range(SchemaOrder) \ UserSchemas(q) : n[s] = 0
        /\ Total(n, UserSchemas(q)) <= MaxTables}

Databases == UNION {{[schemata |-> q, ntab |-> n] : n \in NTabs(q)} : q \in Catalogs}

\* the tables of schema s in database d, in the order the catalog returns them
TablesOf(d, s) == SubSeq(TableNames, 1, d.ntab[s])

\* the qualified names <<schema, table>> of the tables of database d
ExistingTables(d) ==
    UNION {{<<s, TableNames[i]>> : i \in 1..d.ntab[s]} : s \in UserSchemas(d.schemata)}

----------------------------------------------------------------------------
(* Column values and their literals (lines 892-927 and 974-1009) *)

Digit == <<"0", "1", "2", "3", "4", "5", "6", "7", "8", "9">>

RECURSIVE FormatNat(_)
FormatNat(n) ==
    IF n < 10 THEN <<Digit[n + 1]>> ELSE FormatNat(n \div 10) \o <<Digit[(n % 10) + 1]>>

\* the decimal text of an integer (%v, %d)
FormatInt(n) == IF n < 0 THEN <<"-">> \o FormatNat(-n) ELSE FormatNat(n)

\* two digits, as the layouts 15, 04 and 05 of package time print them
Pad2(n) == <<Digit[(n \div 10) + 1], Digit[(n % 10) + 1]>>

RECURSIVE Join(_, _)
\* strings.Join
Join(parts, sep) ==
    IF parts = <<>> THEN <<>>
    ELSE IF Len(parts) = 1 THEN parts[1]
    ELSE parts[1] \o sep \o Join(Tail(parts), sep)

RECURSIVE ReplaceAll(_, _, _)
\* strings.ReplaceAll(s, old, new) for a one-character old
ReplaceAll(s, old, new) ==
    IF s = <<>> THEN <<>>
    ELSE (IF Head(s) = old THEN new ELSE <<Head(s)>>) \o ReplaceAll(Tail(s), old, new)

\* a text without quotes
Bare(text) == text

\* '%s' (lines 907, 916, 921, 925 and 989, 998, 1003, 1007)
Quoted(text) == <<"'">> \o text \o <<"'">>

NullToken == <<"N", "U", "L", "L">>
TrueToken == <<"T", "R", "U", "E">>
FalseToken == <<"F", "A", "L", "S", "E">>

\* a scanned column value: the dynamic type the driver produced and its content
\*   nil; int64 n; float64 n / 10^d, or the special value named s (NaN, +Inf);
\*   bool b; string s; time.Time on TheDate at clock n seconds after midnight in a
\*   zone of offset 0 whose name is s; []byte s (every other type of this driver)
Val(kind, n, d, s, b) == [kind |-> kind, n |-> n, d |-> d, s |-> s, b |-> b]

Nil == Val("nil", 0, 0, <<>>, FALSE)
Int64(n) == Val("int64", n, 0, <<>>, FALSE)
Float64(n, d) == Val("float64", n, d, <<>>, FALSE)
FloatSpecial(name) == Val("float64", 0, 0, name, FALSE)
Bool(b) == Val("bool", 0, 0, <<>>, b)
String(s) == Val("string", 0, 0, s, FALSE)
Time(clock, zone) == Val("time", clock, 0, zone, FALSE)
Bytes(s) == Val("bytes", 0, 0, s, FALSE)

TheDate == <<"2", "0", "2", "3", "-", "0", "1", "-", "0", "2">>
ZoneUTC == <<"U", "T", "C">>

\* strconv's shortest decimal text of n / 10^d (d = 0: no point)
FloatText(n, d) ==
    LET digits == FormatNat(IF n < 0 THEN -n ELSE n)
        RECURSIVE Zeros(_)
        Zeros(k) == IF k <= 0 THEN <<>> ELSE <<"0">> \o Zeros(k - 1)
        padded == Zeros(d + 1 - Len(digits)) \o digits
        whole == SubSeq(padded, 1, Len(padded) - d)
        frac == SubSeq(padded, Len(padded) - d + 1, Len(padded))
    IN (IF n < 0 THEN <<"-">> ELSE <<>>) \o whole
       \o (IF d = 0 THEN <<>> ELSE <<".">> \o frac)

ClockText(n) == Pad2(n \div 3600) \o <<":">> \o Pad2((n % 3600) \div 60) \o <<":">> \o Pad2(n % 60)

\* Time.String(): "2006-01-02 15:04:05.999999999 -0700 MST"; a zone without a
\* name prints its offset in place of the name
TimeString(v) ==
    TheDate \o <<" ">> \o ClockText(v.n) \o <<" ", "+", "0", "0", "0", "0", " ">>
    \o (IF v.s = <<>> THEN <<"+", "0", "0", "0", "0">> ELSE v.s)

\* the byte of a character, for the characters of the byte values below
Ascii == [c \in {"1", "2", "L", "N", "U"} |->
            CASE c = "1" -> 49 [] c = "2" -> 50 [] c = "L" -> 76 [] c = "N" -> 78 [] c = "U" -> 85]

RECURSIVE BytesText(_)
\* %v of a []byte prints its bytes as numbers
BytesText(bs) ==
    IF bs = <<>> THEN <<>>
    ELSE FormatInt(Ascii[Head(bs)]) \o (IF Len(bs) > 1 THEN <<" ">> ELSE <<>>)
         \o BytesText(Tail(bs))

\* fmt.Sprintf("%v", value) (lines 896, 978)
Sprintv(v) ==
    CASE v.kind = "int64" -> FormatInt(v.n)
      [] v.kind = "float64" -> IF v.s # <<>> THEN v.s ELSE FloatText(v.n, v.d)
      [] v.kind = "bool" -> IF v.b THEN <<"t", "r", "u", "e">> ELSE <<"f", "a", "l", "s", "e">>
      [] v.kind = "string" -> v.s
      [] v.kind = "time" -> TimeString(v)
      [] v.kind = "bytes" -> <<"[">> \o BytesText(v.s) \o <<"]">>

IsDigit(c) == c \in Range(Digit)

DigitValue(c) == CHOOSE k \in 0..9 : Digit[k + 1] = c

IsOffset(t) ==
    /\ Len(t) = 5
    /\ t[1] \in {"+", "-"}
    /\ \A i \in 2..5 : IsDigit(t[i])

\* time.Parse("2006-01-02 15:04:05 -0700 -0700", text): [ok, h, m, s]
ParseTime(text) ==
    LET ok == /\ Len(text) = 31
              /\ text[11] = " " /\ text[14] = ":" /\ text[17] = ":" /\ text[20] = " "
              /\ \A i \in {12, 13, 15, 16, 18, 19} : IsDigit(text[i])
              /\ IsOffset(SubSeq(text, 21, 25))
              /\ text[26] = " "
              /\ IsOffset(SubSeq(text, 27, 31))
        two(i) == 10 * DigitValue(text[i]) + DigitValue(text[i + 1])
    IN IF ok THEN [ok |-> TRUE, h |-> two(12), m |-> two(15), s |-> two(18)]
       ELSE [ok |-> FALSE, h |-> 0, m |-> 0, s |-> 0]

\* the literal of a time value (lines 909-923, 991-1005): nothing when the text
\* of the value does not parse back
TimeLiteral(strValue) ==
    LET t == ParseTime(strValue)
    IN IF ~t.ok THEN [skip |-> TRUE, text |-> <<>>]
       ELSE IF t.h + t.m + t.s # 0
            THEN [skip |-> FALSE,
                  text |-> Quoted(TheDate \o <<" ">> \o Pad2(t.h) \o <<":">> \o Pad2(t.m)
                                  \o <<":">> \o Pad2(t.s))]
            ELSE [skip |-> FALSE, text |-> Quoted(TheDate)]

Lit(text) == [skip |-> FALSE, text |-> text]

\* a string between quotes as it is
InsertStringUnescaped(strValue) == <<"'">> \o strValue \o <<"'">>

\* lines 906-907: the string case of broadcastTableRecordsINSERT
InsertString(strValue) == Quoted(ReplaceAll(strValue, "'", <<"'", "'">>))

\* lines 893-927: what broadcastTableRecordsINSERT appends for one value;
\* skip: the loop continues without appending anything, the separator included
InsertLiteral(v) ==
    IF v.kind = "nil" THEN Lit(NullToken)
    ELSE LET strValue == Sprintv(v)
         IN CASE v.kind \in {"int64", "float64"} -> Lit(strValue)
              [] v.kind = "bool" -> Lit(IF v.b THEN TrueToken ELSE FalseToken)
              [] v.kind = "string" -> Lit(InsertString(strValue))
              [] v.kind = "time" -> TimeLiteral(strValue)
              [] OTHER -> Lit(Quoted(strValue))

\* a string between quotes as it is
CopyStringUnescaped(strValue) == <<"'">> \o strValue \o <<"'">>

\* lines 988-989: the string case of broadcastTableRecordsCOPY
CopyString(strValue) == Quoted(ReplaceAll(strValue, "'", <<"'", "'">>))

\* lines 975-1009: what broadcastTableRecordsCOPY appends to valueParams
CopyLiteral(v) ==
    IF v.kind = "nil" THEN Lit(NullToken)
    ELSE LET strValue == Sprintv(v)
         IN CASE v.kind \in {"int64", "float64"} -> Lit(strValue)
              [] v.kind = "bool" -> Lit(IF v.b THEN TrueToken ELSE FalseToken)
              [] v.kind = "string" -> Lit(CopyString(strValue))
              [] v.kind = "time" -> TimeLiteral(strValue)
              [] OTHER -> Lit(Quoted(strValue))

\* the pieces of a statement: each is a text
InsertHead == <<"INSERT INTO schema.table (columns) VALUES (">>
InsertTail == <<");\n">>
Comma == <<",", " ">>
Tab == <<"\t">>

RECURSIVE InsertValues(_, _)
\* lines 892-932: the loop over the values of a row, from index i
InsertValues(vals, i) ==
    IF i > Len(vals) THEN <<>>
    ELSE LET lit == InsertLiteral(vals[i])
         IN IF lit.skip THEN InsertValues(vals, i + 1)
            ELSE <<lit.text>> \o (IF i # Len(vals) THEN <<Comma>> ELSE <<>>)
                 \o InsertValues(vals, i + 1)

\* lines 889-934: the statement of one row, piece by piece
InsertStatement(vals) == <<InsertHead>> \o InsertValues(vals, 1) \o <<InsertTail>>

RECURSIVE CopyValues(_, _)
\* lines 972-1014: valueParams
CopyValues(vals, i) ==
    IF i > Len(vals) THEN <<>>
    ELSE LET lit == CopyLiteral(vals[i])
         IN (IF lit.skip THEN <<>> ELSE <<lit.text>>) \o CopyValues(vals, i + 1)

\* line 1016: strings.Join(valueParams, "\t")
CopyLineText(vals) == Join(CopyValues(vals, 1), Tab)

----------------------------------------------------------------------------
(* Sequence statements (lines 698-769) *)

\* an int64: a sign and a magnitude of three groups of nine decimal digits, most
\* significant first; zero is not negative
I64(neg, a, b, c) == [neg |-> neg, mag |-> <<a, b, c>>]

I64One == I64(FALSE, 0, 0, 1)

PostgresBigintMin == I64(TRUE, 9, 223372036, 854775808)
PostgresBigintMax == I64(FALSE, 9, 223372036, 854775807)

\* nine digits, zeros in front
Pad9(n) ==
    LET d == FormatNat(n)
    IN [i \in 1..(9 - Len(d)) |-> "0"] \o d

\* fmt's %d of an int64
FormatInt64(x) ==
    LET m == x.mag
        digits == IF m[1] # 0 THEN FormatNat(m[1]) \o Pad9(m[2]) \o Pad9(m[3])
                  ELSE IF m[2] # 0 THEN FormatNat(m[2]) \o Pad9(m[3])
                  ELSE FormatNat(m[3])
    IN (IF x.neg THEN <<"-">> ELSE <<>>) \o digits

NoMinvalue == <<"\n\tNO MINVALUE">>
Minvalue == <<"\n\tMINVALUE ">>
NoMaxvalue == <<"\n\tNO MAXVALUE">>
Maxvalue == <<"\n\tMAXVALUE ">>

\* lines 745-748
minvalueClause(minimumValue) ==
    IF minimumValue = I64One THEN <<NoMinvalue>>
    ELSE <<Minvalue, FormatInt64(minimumValue)>>

\* the test of the maximum against the largest 32-bit integer
maxvalueClauseInt32(maximumValue) ==
    IF maximumValue = I64(FALSE, 0, 2, 147483647) THEN <<NoMaxvalue>>
    ELSE <<Maxvalue, FormatInt64(maximumValue)>>

\* lines 750-753
maxvalueClause(maximumValue) ==
    IF maximumValue = PostgresBigintMax THEN <<NoMaxvalue>>
    ELSE <<Maxvalue, FormatInt64(maximumValue)>>

\* lines 740-743
cycle(cycleOption) == IF cycleOption = "YES" THEN <<<<"\n\tCYCLE">>>> ELSE <<>>

\* lines 755-756: createStmt, piece by piece
createStmt(q) ==
    <<<<"CREATE SEQUENCE schema.name">>, <<"\n\tSTART WITH ">>, FormatInt64(q.startValue)>>
    \o minvalueClause(q.minimumValue)
    \o maxvalueClause(q.maximumValue)
    \o <<<<"\n\tINCREMENT BY ">>, FormatInt64(q.increment)>>
    \o cycle(q.cycleOption)
    \o <<<<"\n;\n">>>>

\* rows of information_schema.sequences
MinimumValues ==
    {I64One, I64(FALSE, 0, 0, 0), I64(TRUE, 0, 0, 1), I64(FALSE, 0, 0, 2),
     I64(FALSE, 0, 1, 1), PostgresBigintMin}
MaximumValues ==
    {PostgresBigintMax, I64(FALSE, 9, 223372036, 854775806), I64(FALSE, 0, 2, 147483647),
     I64(FALSE, 0, 0, 32767), I64One, I64(TRUE, 0, 0, 1)}
SequenceRows ==
    [startValue : {I64One}, minimumValue : MinimumValues, maximumValue : MaximumValues,
     increment : {I64One, I64(TRUE, 0, 0, 1)}, cycleOption : {"YES", "NO"}]

----------------------------------------------------------------------------
(* CREATE TABLE statements (lines 378-480) *)

\* sql.NullString
Null == [Valid |-> FALSE, String |-> <<>>]
Str(text) == [Valid |-> TRUE, String |-> text]

\* names are sequences of chunks, so that a prefix can be taken off
TypeInt4 == <<"int4">>
TypeStatus == <<"status">>
TypeStatusArray == <<"_", "status">>

ColumnNames == <<"c1", "c2", "c3">>

\* the type columns of a row of information_schema.columns: data_type, udt_name
ColumnTypes ==
    {[dataType |-> Str(<<"integer">>), udtName |-> Str(TypeInt4)],
     [dataType |-> Str(<<"USER-DEFINED">>), udtName |-> Str(TypeStatus)],
     [dataType |-> Str(<<"ARRAY">>), udtName |-> Str(TypeStatusArray)],
     [dataType |-> Null, udtName |-> Str(TypeInt4)],
     [dataType |-> Str(<<"integer">>), udtName |-> Null]}

\* the columns of a table by ordinal position; length, precision and default
\* are left out: they add text to a definition and never add or drop one
TableColumns ==
    UNION {{[i \in 1..n |-> [columnName |-> Str(<<ColumnNames[i]>>),
                             dataType |-> ty[i].dataType,
                             udtName |-> ty[i].udtName,
                             isNullable |-> nu[i]]] :
               ty \in [1..n -> ColumnTypes], nu \in [1..n -> {"YES", "NO"}]} :
           n \in 0..MaxCols}

\* pg_type joined with pg_namespace: <<typname, nspname>>; a type name is
\* unique within a schema only
PgTypes ==
    {{<<TypeInt4, "pg_catalog">>} \cup {<<TypeStatus, ns>> : ns \in S}
        \cup {<<TypeStatusArray, ns>> : ns \in S} : S \in SUBSET {"a", "b"}}

\* the orders in which the rows of a set may be returned
Orderings(S) ==
    {q \in [1..Cardinality(S) -> S] : \A i, j \in 1..Cardinality(S) : q[i] = q[j] => i = j}

\* lines 382-397: the rows the two LEFT JOINs give for column c
JoinedRows(c, types) ==
    LET matches == {t \in types : c.udtName.Valid /\ t[1] = c.udtName.String}
        row(ns) == [columnName |-> c.columnName, dataType |-> c.dataType,
                    udtName |-> c.udtName, isNullable |-> c.isNullable,
                    typeSchema |-> ns]
    IN IF matches = {} THEN {<<row(Null)>>}
       ELSE {[i \in DOMAIN q |-> row(Str(<<q[i][2]>>))] : q \in Orderings(matches)}

RECURSIVE QueryResults(_, _)
\* lines 382-397: the results the column query may give, ordered by ordinal
\* position
QueryResults(cols, types) ==
    IF cols = <<>> THEN {<<>>}
    ELSE {h \o t : h \in JoinedRows(Head(cols), types), t \in QueryResults(Tail(cols), types)}

HasPrefix(text, c) == text # <<>> /\ text[1] = c

\* lines 416-453: the definition of the column of row r, chunk by chunk
columnDef(r) ==
    r.columnName.String
    \o (IF HasPrefix(r.udtName.String, "_")
            THEN <<" ">> \o Tail(r.udtName.String) \o <<"[]">>
        ELSE IF r.dataType.String = <<"USER-DEFINED">> /\ r.typeSchema.Valid
                /\ r.typeSchema.String # <<>>
            THEN <<" ">> \o r.typeSchema.String \o <<".">> \o r.udtName.String
        ELSE <<" ">> \o r.dataType.String)
    \o (IF r.isNullable = "NO" THEN <<" NOT NULL">> ELSE <<>>)

NoError == "nil"

RECURSIVE ColumnDefs(_)
\* lines 403-470: the loop over the rows read: [err, defs]
ColumnDefs(rs) ==
    IF rs = <<>> THEN [err |-> NoError, defs |-> <<>>]
    ELSE LET r == Head(rs)
         IN IF ~(r.columnName.Valid /\ r.dataType.Valid) THEN ColumnDefs(Tail(rs))
            ELSE IF ~r.udtName.Valid THEN [err |-> "invalid udtName for column", defs |-> <<>>]
            ELSE LET rest == ColumnDefs(Tail(rs))
                 IN IF rest.err # NoError THEN rest
                    ELSE [err |-> NoError, defs |-> <<columnDef(r)>> \o rest.defs]

\* lines 403-479: what getCreateTableStatement returns for the rows read
CreateTable(rs) ==
    LET loop == ColumnDefs(rs)
    IN IF loop.err # NoError THEN loop
       ELSE IF Len(loop.defs) = 0 THEN [err |-> "Table not found", defs |-> <<>>]
       ELSE loop

----------------------------------------------------------------------------
(* State *)

VARIABLES
    db,          \* the database catalog (never written by the job)
    opt,         \* m.Options: [RecordMode, Compress, DataOnly]
    fs,          \* which files exist: [out, lock, pack]
    out,         \* the content of the output file: one item per WriteString
    pack,        \* the compressed artifact: "none", "empty", "partial", "buffered", "complete"
    pc,          \* where Pack is
    result,      \* how the job ended: "none", "ok", "exit0", "fatal" or an error message
    deferred,    \* Pack's stack of deferred calls
    schemas,     \* Pack's local: the schemas getSchemas returned
    si,          \* index of the schema of the current iteration
    tables,      \* Pack's local: the tables of the current schema
    ti,          \* index of the table of the records loop
    got,         \* the record the range loop has received and not yet written
    prod,        \* where the producer goroutine of the current table is
    chClosed,    \* whether the current channel is closed
    pending,     \* fragments the producer has built for the current row and not yet sent
    nrow,        \* rows the producer has fetched from its result set
    closing,     \* producers that have closed their channel and not yet their rows
    nfault,      \* history: read errors so far (bounded by MaxFaults)
    nfk,         \* history: foreign keys read so far (bounded by MaxFKs)
    sent,        \* history: the fragments sent on the current channel
    scanErr,     \* history: the row at which rows.Scan failed in the current stream, 0 if none
    jobs,        \* two jobs on one output path: each job's [RecordMode, pc, result, response]
    disk,        \* two jobs on one output path: which files exist: [out, lock]
    outputFilename, \* the compression step: *m.OutputFilename
    files,       \* the compression step: the content of each file that exists, by path
    cpc,         \* the compression step: its position
    compResult,  \* the compression step: what Pack returns
    lockCreated, \* history: whether this job created the lock artifact
    values,      \* the values of a scanned table row
    encoded,     \* which of the two encodings of the row have been built
    insertStmt,  \* insertStmt of broadcastTableRecordsINSERT, piece by piece
    valueParams, \* valueParams of broadcastTableRecordsCOPY
    copyLine,    \* the line broadcastTableRecordsCOPY sends for the row
    sequence,    \* a scanned row of information_schema.sequences
    seqStmt,     \* createStmt of getSequenceStatements, piece by piece; <<>> before
    columns,     \* the columns of a table in information_schema.columns
    pgType,      \* the rows of pg_type with their schema
    colRows,     \* the result of the column query of getCreateTableStatement
    nread,       \* how many rows of colRows rows.Next has returned
    tpc,         \* where getCreateTableStatement is
    createTable, \* what getCreateTableStatement returned: [err, defs]
    response     \* init's local: the line read at the overwrite prompt

vars ==
    <<db, opt, fs, out, pack, pc, result, deferred, schemas, si, tables, ti, got,
      prod, chClosed, pending, nrow, closing, nfault, nfk, sent, scanErr,
      lockCreated, values, encoded, insertStmt, valueParams, copyLine, sequence, seqStmt,
      columns, pgType, colRows, nread, tpc, createTable, response, jobs, disk,
      outputFilename, files, cpc, compResult>>

jobVars == <<pc, result, deferred>>
loopVars == <<schemas, si, tables, ti>>
streamVars == <<got, prod, chClosed, pending, nrow, closing, nfault, sent, scanErr>>
rowVars == <<values, encoded, insertStmt, valueParams, copyLine>>
seqVars == <<sequence, seqStmt>>
tabVars == <<columns, pgType, colRows, nread, tpc, createTable>>
pathVars == <<jobs, disk>>
compVars == <<outputFilename, files, cpc, compResult>>
\* what the job never writes
fixed == <<db, rowVars, seqVars, tabVars, pathVars, compVars>>
\* what nothing after init writes
given == <<fixed, response>>

NoRecord == <<>>
NotAsked == <<"not asked">>
OldContent == <<<<"old", "", "", "">>>>

JobInit ==
    /\ db \in Databases
    /\ opt \in [RecordMode : RecordModeInputs, Compress : BOOLEAN, DataOnly : BOOLEAN]
    /\ fs \in [out : BOOLEAN, lock : {FALSE}, pack : {FALSE}]
    /\ out = IF fs.out THEN OldContent ELSE <<>>
    /\ pack = "none"
    /\ pc = "idle"
    /\ result = "none"
    /\ deferred = <<>>
    /\ schemas = <<>>
    /\ si = 0
    /\ tables = <<>>
    /\ ti = 0
    /\ got = NoRecord
    /\ prod = "none"
    /\ chClosed = FALSE
    /\ pending = <<>>
    /\ nrow = 0
    /\ closing = 0
    /\ nfault = 0
    /\ nfk = 0
    /\ sent = <<>>
    /\ scanErr = 0
    /\ lockCreated = FALSE
    /\ response = NotAsked

\* no job: the state in which only a row or a sequence is looked at
NoJob ==
    /\ db = [schemata |-> <<>>, ntab |-> [s \in Range(SchemaOrder) |-> 0]]
    /\ opt = [RecordMode |-> ModeCopy, Compress |-> FALSE, DataOnly |-> FALSE]
    /\ fs = [out |-> FALSE, lock |-> FALSE, pack |-> FALSE]
    /\ out = <<>>
    /\ pack = "none"
    /\ pc = "idle"
    /\ result = "none"
    /\ deferred = <<>>
    /\ schemas = <<>>
    /\ si = 0
    /\ tables = <<>>
    /\ ti = 0
    /\ got = NoRecord
    /\ prod = "none"
    /\ chClosed = FALSE
    /\ pending = <<>>
    /\ nrow = 0
    /\ closing = 0
    /\ nfault = 0
    /\ nfk = 0
    /\ sent = <<>>
    /\ scanErr = 0
    /\ lockCreated = FALSE
    /\ response = NotAsked

NoRow ==
    /\ values = <<>>
    /\ encoded = {}
    /\ insertStmt = <<>>
    /\ valueParams = <<>>
    /\ copyLine = <<>>

NoSequence ==
    /\ sequence = [startValue |-> I64One, minimumValue |-> I64One,
                   maximumValue |-> PostgresBigintMax, increment |-> I64One,
                   cycleOption |-> "NO"]
    /\ seqStmt = <<>>

NoTable ==
    /\ columns = <<>>
    /\ pgType = {}
    /\ colRows = <<>>
    /\ nread = 0
    /\ tpc = "idle"
    /\ createTable = [err |-> NoError, defs |-> <<>>]

\* no second job on the output path
NoPath ==
    /\ jobs = <<>>
    /\ disk = [out |-> FALSE, lock |-> FALSE]

\* no compression step looked at on its own
NoCompress ==
    /\ outputFilename = <<>>
    /\ files = <<>>
    /\ cpc = "idle"
    /\ compResult = "none"

Init == JobInit /\ NoRow /\ NoSequence /\ NoTable /\ NoPath /\ NoCompress

----------------------------------------------------------------------------
(* Leaving Pack *)

\* return from Pack: the deferred calls run next, last registered first
Return(res) ==
    /\ result' = res
    /\ pc' = "defers"
    /\ UNCHANGED deferred

\* log.Fatal and os.Exit end the process at once: no deferred call runs
Exit(res) ==
    /\ result' = res
    /\ pc' = "ended"
    /\ UNCHANGED deferred

Goto(l) ==
    /\ pc' = l
    /\ UNCHANGED <<result, deferred>>

IsSpace(c) == c \in {" ", "\n", "\t"}

RECURSIVE TrimLeft(_)
TrimLeft(s) == IF s # <<>> /\ IsSpace(Head(s)) THEN TrimLeft(Tail(s)) ELSE s

RECURSIVE TrimRight(_)
TrimRight(s) ==
    IF s # <<>> /\ IsSpace(s[Len(s)]) THEN TrimRight(SubSeq(s, 1, Len(s) - 1)) ELSE s

\* strings.TrimSpace
TrimSpace(s) == TrimRight(TrimLeft(s))

\* the lines the model feeds to the overwrite prompt (<<>>: end of input)
Responses == {<<"y", "\n">>, <<"Y", "\n">>, <<" ", "y", "\n">>, <<"n", "\n">>, <<"\n">>, <<>>}

\* the answer init compares with "y", without the trimming
AnswerUntrimmed(line) == ToLower(line)

\* the answer init compares with "y"
Answer(line) == TrimSpace(ToLower(line))

\* lines 97-109: the output file and the lock file are written empty
WriteFiles ==
    \/ \* os.WriteFile of the output file fails
       /\ Return("cannot initialize pack job: cannot write to output file")
       /\ UNCHANGED <<fs, out, lockCreated>>
    \/ \* the output file is written empty, the lock file is not
       /\ fs' = [fs EXCEPT !.out = TRUE]
       /\ out' = <<>>
       /\ Return("cannot initialize pack job: cannot create lock file")
       /\ UNCHANGED lockCreated
    \/ /\ fs' = [fs EXCEPT !.out = TRUE, !.lock = TRUE]
       /\ out' = <<>>
       /\ lockCreated' = TRUE
       /\ pc' = "create"
       /\ deferred' = <<"cleanup">>
       /\ UNCHANGED result

\* lines 78-88 of Manager.init: the record mode is accepted, the output file
\* exists, and a line is read from the standard input
prompt ==
    /\ pc = "idle"
    /\ LET recordMode == ToLower(opt.RecordMode)
       IN /\ (recordMode = ModeInsert \/ recordMode = ModeCopy)
          /\ opt' = [opt EXCEPT !.RecordMode = recordMode]
    /\ fs.out
    /\ response' \in Responses
    /\ pc' = "prompt"
    /\ UNCHANGED <<fixed, fs, out, pack, result, deferred, loopVars, streamVars, nfk,
                   lockCreated>>

\* Manager.init, called first by Pack; with an existing output file, its part
\* after the answer was read
init ==
    /\ \/ /\ pc = "idle"
          /\ LET recordMode == ToLower(opt.RecordMode)
             IN \/ /\ ~(recordMode = ModeInsert \/ recordMode = ModeCopy)
                   /\ Return("cannot initialize pack job: invalid value for record mode")
                   /\ UNCHANGED <<opt, fs, out, lockCreated>>
                \/ /\ (recordMode = ModeInsert \/ recordMode = ModeCopy)
                   /\ ~fs.out
                   /\ opt' = [opt EXCEPT !.RecordMode = recordMode]
                   /\ WriteFiles
          /\ UNCHANGED response
       \/ /\ pc = "prompt"
          /\ \/ /\ Answer(response) # <<"y">>
                /\ Exit("exit0")
                /\ UNCHANGED <<fs, out, lockCreated, response>>
             \/ /\ Answer(response) = <<"y">>
                /\ WriteFiles
                /\ response' = NotAsked
          /\ UNCHANGED opt
    /\ UNCHANGED <<fixed, pack, loopVars, streamVars, nfk>>

----------------------------------------------------------------------------
(* The output script: one item <<kind, schema, table, x>> per WriteString *)

Item(kind, schema, table, x) == <<kind, schema, table, x>>

Preamble == Item("preamble", "", "", "")
Start(schema, section) == Item("START", schema, "", section)
End(schema, section) == Item("END", schema, "", section)

\* one item of kind `kind` for each table of tabs, in order
Stmts(kind, schema, tabs) == [i \in 1..Len(tabs) |-> Item(kind, schema, tabs[i], "")]

Write(items) == out' = out \o items

\* Pack, lines 129-146: create the output file and write the preamble
CreateOutput ==
    /\ pc = "create"
    /\ \/ /\ Return("error while creating output file")
          /\ UNCHANGED <<fs, out>>
       \/ /\ fs' = [fs EXCEPT !.out = TRUE]
          /\ out' = <<Preamble>>
          /\ Goto("getSchemas")
    /\ UNCHANGED <<given, opt, pack, loopVars, streamVars, nfk, lockCreated>>

\* the schemas getSchemas keeps
RECURSIVE KeepUser(_)
KeepUser(q) ==
    IF q = <<>> THEN <<>>
    ELSE IF Head(q) \in SystemSchemas THEN KeepUser(Tail(q))
    ELSE <<Head(q)>> \o KeepUser(Tail(q))

\* Manager.getSchemas, and Pack's use of it (lines 149-152).  The loop ends when
\* rows.Next returns false, and rows.Err is not consulted after it (line 350):
\* a read that stops on an error after k rows returns the rows read so far
\* with a nil error.
getSchemas ==
    /\ pc = "getSchemas"
    /\ \/ /\ Return("error while fetching schemas")
          /\ UNCHANGED <<schemas, si, nfault>>
       \/ /\ schemas' = KeepUser(db.schemata)
          /\ si' = 1
          /\ Goto("schema")
          /\ UNCHANGED nfault
       \/ \E k \in 0..(Len(db.schemata) - 1) :
             /\ nfault < MaxFaults
             /\ nfault' = nfault + 1
             /\ schemas' = KeepUser(SubSeq(db.schemata, 1, k))
             /\ si' = 1
             /\ Goto("schema")
    /\ UNCHANGED <<given, opt, fs, out, pack, tables, ti, got, prod, chClosed, pending,
                   nrow, closing, sent, scanErr, nfk, lockCreated>>

\* Manager.getTables at the head of the schema loop (lines 154-159); the loop's
\* end.  As in getSchemas, rows.Err is not consulted (line 375).
getTables ==
    /\ pc = "schema"
    /\ \/ /\ si > Len(schemas)
          /\ Goto("close")
          /\ UNCHANGED <<tables, nfault>>
       \/ /\ si <= Len(schemas)
          /\ \/ /\ Return("error while fetching tables")
                /\ UNCHANGED <<tables, nfault>>
             \/ /\ tables' = TablesOf(db, schemas[si])
                /\ Goto("drop")
                /\ UNCHANGED nfault
             \/ \E k \in 0..(Len(TablesOf(db, schemas[si])) - 1) :
                   /\ nfault < MaxFaults
                   /\ nfault' = nfault + 1
                   /\ tables' = SubSeq(TablesOf(db, schemas[si]), 1, k)
                   /\ Goto("drop")
    /\ UNCHANGED <<given, opt, fs, out, pack, schemas, si, ti, got, prod, chClosed, pending,
                   nrow, closing, sent, scanErr, nfk, lockCreated>>

\* lines 161-171: DROP TABLE IF EXISTS <table>; the statement names the table
\* without its schema
DropTables ==
    /\ pc = "drop"
    /\ LET s == schemas[si]
       IN \/ \E k \in 1..Len(tables) :
                /\ Write(<<Start(s, "DROPPING TABLES")>> \o Stmts("drop", "", SubSeq(tables, 1, k - 1)))
                /\ Return("error while writing DROP statement")
          \/ /\ Write(<<Start(s, "DROPPING TABLES")>> \o Stmts("drop", "", tables)
                        \o <<End(s, "DROPPING TABLES")>>)
             /\ Goto("types")
    /\ UNCHANGED <<given, opt, fs, pack, loopVars, streamVars, nfk, lockCreated>>

\* a section that is one catalog query and one statement block (lines 173-219)
Section(at, section, kind, queryError, writeError, next) ==
    /\ pc = at
    /\ LET s == schemas[si]
       IN \/ /\ Write(<<Start(s, section)>>)
             /\ Return(queryError)
          \/ /\ writeError # ""
             /\ Write(<<Start(s, section)>>)
             /\ Return(writeError)
          \/ /\ Write(<<Start(s, section), Item(kind, s, "", ""), End(s, section)>>)
             /\ Goto(next)
    /\ UNCHANGED <<given, opt, fs, pack, loopVars, streamVars, nfk, lockCreated>>

\* lines 173-180; the write of the statements is not checked
CreateTypes ==
    Section("types", "CREATING TYPES", "types",
            "error while constructing CREATE TYPE statement", "", "domains")

\* lines 182-193
Domains ==
    Section("domains", "DOMAINS", "domains",
            "error while constructing DOMAIN statement",
            "error while writing DOMAIN statement", "functions")

\* lines 195-206
Functions ==
    Section("functions", "FUNCTIONS", "functions",
            "error while constructing FUNCTION statement",
            "error while writing FUNCTION statement", "sequences")

\* lines 208-219
Sequences_ ==
    Section("sequences", "SEQUENCES", "sequences",
            "error while constructing SEQUENCE statement",
            "error while writing SEQUENCE statement", "createTables")

\* lines 221-232: CREATE TABLE for every table of the schema
CreateTables ==
    /\ pc = "createTables"
    /\ LET s == schemas[si]
       IN \/ \E k \in 1..Len(tables) :
                \E e \in {"error while constructing CREATE statement",
                          "error while writing CREATE statement"} :
                    /\ Write(<<Start(s, "CREATING TABLES")>>
                             \o Stmts("create", s, SubSeq(tables, 1, k - 1)))
                    /\ Return(e)
          \/ /\ Write(<<Start(s, "CREATING TABLES")>> \o Stmts("create", s, tables)
                        \o <<End(s, "CREATING TABLES")>>)
             /\ Goto("records")
    /\ UNCHANGED <<given, opt, fs, pack, loopVars, streamVars, nfk, lockCreated>>

----------------------------------------------------------------------------
(* The records loop (lines 234-258) and the producer goroutines *)

\* the fragments a producer sends: <<kind, row>>
CopyHeader == <<"COPY ... FROM stdin;\n", 0>>
CopyLine(r) == <<"copy line", r>>
Newline == <<"\n", 0>>
CopyEnd == <<"\\.\n", 0>>
InsertStmt(r) == <<"INSERT", r>>

\* lines 234 and 236-245: the banners, make(chan string) and the go statement;
\* after the last table, line 258
StartTable ==
    /\ pc \in {"records", "table"}
    /\ LET s == schemas[si]
           banner == IF pc = "records" THEN <<Start(s, "RECORDS")>> ELSE <<>>
           t == IF pc = "records" THEN 1 ELSE ti + 1
       IN /\ ti' = t
          /\ \/ /\ t > Len(tables)
                /\ Write(banner \o <<End(s, "RECORDS")>>)
                /\ Goto("constraints")
                /\ UNCHANGED streamVars
             \/ /\ t <= Len(tables)
                /\ Write(banner \o <<Item("Table:", s, tables[t], "")>>)
                /\ Goto("drain")
                /\ prod' = "query"
                /\ chClosed' = FALSE
                /\ pending' = <<>>
                /\ nrow' = 0
                /\ sent' = <<>>
                /\ scanErr' = 0
                /\ UNCHANGED <<got, closing, nfault>>
    /\ UNCHANGED <<given, opt, fs, pack, schemas, si, tables, nfk, lockCreated>>

producerFrame == <<given, opt, fs, out, pack, jobVars, loopVars, got, closing, nfk, lockCreated>>

Running == pc # "ended"

\* lines 861-868 and 944-950: the row-fetch query; on an error the goroutine
\* returns before close(ch) is deferred
producerQuery ==
    /\ Running
    /\ prod = "query"
    /\ \/ prod' = "returned"
       \/ prod' = "columns"
    /\ UNCHANGED <<chClosed, pending, nrow, nfault, sent, scanErr>>
    /\ UNCHANGED producerFrame

\* lines 871-881 and 952-964: rows.Columns; COPY then builds its header
producerColumns ==
    /\ Running
    /\ prod = "columns"
    /\ \/ \* rows.Columns fails
          /\ nfault < MaxFaults
          /\ nfault' = nfault + 1
          /\ prod' = "closeCh"
          /\ UNCHANGED pending
       \/ /\ opt.RecordMode = ModeInsert
          /\ prod' = "fetch"
          /\ UNCHANGED <<pending, nfault>>
       \/ /\ opt.RecordMode = ModeCopy
          /\ prod' = "sendHeader"
          /\ pending' = <<CopyHeader>>
          /\ UNCHANGED nfault
    /\ UNCHANGED <<chClosed, nrow, sent, scanErr>>
    /\ UNCHANGED producerFrame

\* the fragments of one decoded row
RowFragments(mode, r) ==
    IF mode = ModeInsert THEN <<InsertStmt(r)>> ELSE <<CopyLine(r), Newline>>

\* lines 883-934 and 966-1016: rows.Next, rows.Scan and the encoding of the row;
\* after the last row COPY sends the end marker (line 1020)
producerFetch ==
    /\ Running
    /\ prod = "fetch"
    /\ \/ \* rows.Next is true and Scan fails
          /\ nrow < MaxRows
          /\ nfault < MaxFaults
          /\ nfault' = nfault + 1
          /\ nrow' = nrow + 1
          /\ scanErr' = nrow + 1
          /\ prod' = "closeCh"
          /\ UNCHANGED pending
       \/ /\ nrow < MaxRows
          /\ nrow' = nrow + 1
          /\ prod' = "sendRow"
          /\ pending' = RowFragments(opt.RecordMode, nrow + 1)
          /\ UNCHANGED <<nfault, scanErr>>
       \/ \* rows.Next is false
          /\ opt.RecordMode = ModeInsert
          /\ prod' = "closeCh"
          /\ UNCHANGED <<pending, nrow, nfault, scanErr>>
       \/ /\ opt.RecordMode = ModeCopy
          /\ prod' = "sendEnd"
          /\ pending' = <<CopyEnd>>
          /\ UNCHANGED <<nrow, nfault, scanErr>>
    /\ UNCHANGED <<chClosed, sent>>
    /\ UNCHANGED producerFrame

\* where the producer goes once its pending fragments are sent
AfterSend(at) ==
    CASE at = "sendHeader" -> "fetch"
      [] at = "sendRow" -> "fetch"
      [] at = "sendEnd" -> "closeCh"

Sending == prod \in {"sendHeader", "sendRow", "sendEnd"}

\* a send on a channel with a buffer: it completes whether or not the range loop
\* is at its receive
HandoffBuffered ==
    /\ Running
    /\ Sending
    /\ sent' = Append(sent, Head(pending))
    /\ pending' = Tail(pending)
    /\ prod' = IF Tail(pending) = <<>> THEN AfterSend(prod) ELSE prod
    /\ IF pc = "drain" /\ got = NoRecord
       THEN got' = Head(pending) /\ pc' = "write"
       ELSE UNCHANGED <<got, pc>>
    /\ UNCHANGED <<given, opt, fs, out, pack, result, deferred, loopVars, chClosed, nrow,
                   closing, nfault, scanErr, nfk, lockCreated>>

\* ch <- fragment meets the range loop's receive (line 251): the channel is
\* unbuffered, so the send and the receive are one step
Handoff ==
    /\ pc = "drain"
    /\ got = NoRecord
    /\ Sending
    /\ got' = Head(pending)
    /\ sent' = Append(sent, Head(pending))
    /\ pending' = Tail(pending)
    /\ prod' = IF Tail(pending) = <<>> THEN AfterSend(prod) ELSE prod
    /\ pc' = "write"
    /\ UNCHANGED <<given, opt, fs, out, pack, result, deferred, loopVars, chClosed, nrow,
                   closing, nfault, scanErr, nfk, lockCreated>>

\* a loop body that writes the received record twice
WriteRecordTwice ==
    /\ pc = "write"
    /\ \/ /\ Return("error while writing data records")
          /\ UNCHANGED out
       \/ /\ Write(<<Item("record", schemas[si], tables[ti], got),
                     Item("record", schemas[si], tables[ti], got)>>)
          /\ Goto("drain")
    /\ got' = NoRecord
    /\ UNCHANGED <<given, opt, fs, pack, loopVars, prod, chClosed, pending, nrow, closing,
                   nfault, sent, scanErr, nfk, lockCreated>>

\* lines 252-255: the received record is written
WriteRecord ==
    /\ pc = "write"
    /\ \/ /\ Return("error while writing data records")
          /\ UNCHANGED out
       \/ /\ Write(<<Item("record", schemas[si], tables[ti], got)>>)
          /\ Goto("drain")
    /\ got' = NoRecord
    /\ UNCHANGED <<given, opt, fs, pack, loopVars, prod, chClosed, pending, nrow, closing,
                   nfault, sent, scanErr, nfk, lockCreated>>

\* a range loop that would report the failed decode of the stream to Pack's caller
DrainEndSurfaced ==
    /\ pc = "drain"
    /\ chClosed
    /\ IF scanErr > 0 THEN Return("error while receiving data records") ELSE Goto("table")
    /\ UNCHANGED <<given, opt, fs, out, pack, loopVars, streamVars, nfk, lockCreated>>

\* the range loop ends when the channel is closed
DrainEnd ==
    /\ pc = "drain"
    /\ chClosed
    /\ Goto("table")
    /\ UNCHANGED <<given, opt, fs, out, pack, loopVars, streamVars, nfk, lockCreated>>

\* the deferred close(ch) (lines 869, 950) runs first; the goroutine then still
\* has rows.Close() to run
producerCloseCh ==
    /\ Running
    /\ prod = "closeCh"
    /\ chClosed' = TRUE
    /\ prod' = "closed"
    /\ closing' = closing + 1
    /\ UNCHANGED <<given, opt, fs, out, pack, jobVars, loopVars, got, pending, nrow, nfault,
                   sent, scanErr, nfk, lockCreated>>

\* the deferred rows.Close() (lines 868, 949) of a producer whose channel is
\* closed; the goroutine ends
producerCloseRows ==
    /\ Running
    /\ closing > 0
    /\ closing' = closing - 1
    /\ UNCHANGED <<given, opt, fs, out, pack, jobVars, loopVars, got, prod, chClosed, pending,
                   nrow, nfault, sent, scanErr, nfk, lockCreated>>

----------------------------------------------------------------------------
(* Constraints (lines 260-287), finalization (290-326) and the deferred calls *)

PKItems(s, tabs) ==
    [i \in 1..(2 * Len(tabs)) |->
        IF i % 2 = 1 THEN Item("Constraint: PRIMARY KEY", s, tabs[(i + 1) \div 2], "")
        ELSE Item("pk", s, tabs[i \div 2], "")]

\* refs[i]: the tables <<schema, table>> the foreign keys of table tabs[i] reference
FKItems(s, tabs, refs) ==
    [i \in 1..(2 * Len(tabs)) |->
        IF i % 2 = 1 THEN Item("Constraint: FOREIGN KEY", s, tabs[(i + 1) \div 2], "")
        ELSE Item("fk", s, tabs[i \div 2], refs[i \div 2])]

\* the constraints of each table kept together: primary key, then foreign keys
ConstraintsTableByTable(s, tabs, refs) ==
    [i \in 1..(4 * Len(tabs)) |->
        LET t == (i + 3) \div 4
        IN CASE i % 4 = 1 -> Item("Constraint: PRIMARY KEY", s, tabs[t], "")
             [] i % 4 = 2 -> Item("pk", s, tabs[t], "")
             [] i % 4 = 3 -> Item("Constraint: FOREIGN KEY", s, tabs[t], "")
             [] OTHER -> Item("fk", s, tabs[t], refs[t])]

\* lines 262-286: the loop over the primary keys, then the loop over the foreign keys
ConstraintItems(s, tabs, refs) == PKItems(s, tabs) \o FKItems(s, tabs, refs)

RECURSIVE SumCard(_, _)
SumCard(refs, n) == IF n = 0 THEN 0 ELSE Cardinality(refs[n]) + SumCard(refs, n - 1)

\* what the foreign-key queries of n tables may return: the referenced tables
\* are tables of the database, of any schema
FKResults(d, n, budget) ==
    {refs \in [1..n -> SUBSET ExistingTables(d)] : SumCard(refs, n) <= budget}

\* lines 260-287: the primary keys of every table, then the foreign keys of every
\* table of the schema; then the next schema
Constraints ==
    /\ pc = "constraints"
    /\ LET s == schemas[si]
           n == Len(tables)
       IN \/ \E k \in 1..n :
                /\ Write(<<Start(s, "CONSTRAINTS")>> \o PKItems(s, SubSeq(tables, 1, k - 1))
                         \o <<Item("Constraint: PRIMARY KEY", s, tables[k], "")>>)
                /\ Return("primary key statement failed")
                /\ UNCHANGED <<si, nfk>>
          \/ \E k \in 1..n : \E refs \in FKResults(db, k - 1, MaxFKs - nfk) :
                /\ Write(<<Start(s, "CONSTRAINTS")>> \o PKItems(s, tables)
                         \o FKItems(s, SubSeq(tables, 1, k - 1), refs)
                         \o <<Item("Constraint: FOREIGN KEY", s, tables[k], "")>>)
                /\ Return("foreign key statement failed")
                /\ nfk' = nfk + SumCard(refs, k - 1)
                /\ UNCHANGED si
          \/ \E refs \in FKResults(db, n, MaxFKs - nfk) :
                /\ Write(<<Start(s, "CONSTRAINTS")>> \o ConstraintItems(s, tables, refs)
                         \o <<End(s, "CONSTRAINTS")>>)
                /\ nfk' = nfk + SumCard(refs, n)
                /\ si' = si + 1
                /\ Goto("schema")
    /\ UNCHANGED <<given, opt, fs, pack, schemas, tables, ti, streamVars, lockCreated>>

\* line 290, and the test of line 293
CloseOutput ==
    /\ pc = "close"
    /\ \/ /\ opt.Compress
          /\ Goto("compress")
       \/ /\ ~opt.Compress
          /\ Return("ok")
    /\ UNCHANGED <<given, opt, fs, out, pack, loopVars, streamVars, nfk, lockCreated>>

\* lines 294-311: the compressed file is created, the output file is opened for
\* reading, the brotli writer is made
CompressOpen ==
    /\ pc = "compress"
    /\ fs' = [fs EXCEPT !.pack = TRUE]
    /\ pack' = "empty"
    /\ \/ \* os.Open fails: log.Fatal
          /\ result' = "fatal"
          /\ pc' = "ended"
          /\ deferred' = Append(deferred, "compOutFile.Close")
       \/ /\ deferred' = deferred \o <<"compOutFile.Close", "writer.Close">>
          /\ pc' = "copy"
          /\ UNCHANGED result
    /\ UNCHANGED <<given, opt, out, loopVars, streamVars, nfk, lockCreated>>

\* lines 314-319: io.Copy into the brotli writer
CompressCopy ==
    /\ pc = "copy"
    /\ \/ /\ pack' = "partial"
          /\ Return("error while compressing pack file")
       \/ /\ pack' = "buffered"
          /\ Goto("remove")
    /\ UNCHANGED <<given, opt, fs, out, loopVars, streamVars, nfk, lockCreated>>

\* lines 321-326: the plain file is removed
RemovePlain ==
    /\ pc = "remove"
    /\ \/ /\ Return("error while deleting plain pack file")
          /\ UNCHANGED fs
       \/ /\ fs' = [fs EXCEPT !.out = FALSE]
          /\ Return("ok")
    /\ UNCHANGED <<given, opt, out, pack, loopVars, streamVars, nfk, lockCreated>>

\* Manager.cleanup: os.Remove of the lock file (Pack discards its error)
cleanup(f) == [f EXCEPT !.lock = FALSE]

\* writer.Close flushes what io.Copy handed to the brotli writer
writerClose(p) == IF p = "buffered" THEN "complete" ELSE p

RECURSIVE AfterDeferred(_, _)
\* the files and the compressed artifact [fs, pack] after the deferred calls of
\* stack d ran, last registered first
AfterDeferred(d, st) ==
    IF d = <<>> THEN st
    ELSE LET call == d[Len(d)]
             rest == SubSeq(d, 1, Len(d) - 1)
         IN CASE call = "cleanup" -> AfterDeferred(rest, [st EXCEPT !.fs = cleanup(st.fs)])
              [] call = "writer.Close" ->
                    AfterDeferred(rest, [st EXCEPT !.pack = writerClose(st.pack)])
              [] call = "compOutFile.Close" -> AfterDeferred(rest, st)

\* Pack returns: its deferred calls run, last registered first
RunDeferred ==
    /\ pc = "defers"
    /\ LET st == AfterDeferred(deferred, [fs |-> fs, pack |-> pack])
       IN /\ fs' = st.fs
          /\ pack' = st.pack
    /\ deferred' = <<>>
    /\ pc' = "ended"
    /\ UNCHANGED <<given, opt, out, result, loopVars, streamVars, nfk, lockCreated>>

----------------------------------------------------------------------------

Next ==
    \/ prompt
    \/ init
    \/ CreateOutput
    \/ getSchemas
    \/ getTables
    \/ DropTables
    \/ CreateTypes
    \/ Domains
    \/ Functions
    \/ Sequences_
    \/ CreateTables
    \/ StartTable
    \/ producerQuery
    \/ producerColumns
    \/ producerFetch
    \/ Handoff
    \/ WriteRecord
    \/ DrainEnd
    \/ producerCloseCh
    \/ producerCloseRows
    \/ Constraints
    \/ CloseOutput
    \/ CompressOpen
    \/ CompressCopy
    \/ RemovePlain
    \/ RunDeferred

Spec == Init /\ [][Next]_vars

----------------------------------------------------------------------------
(* One row through both record encoders *)

RECURSIVE Texts(_, _)
\* the texts over alphabet of length at most n
Texts(alphabet, n) ==
    IF n = 0 THEN {<<>>}
    ELSE LET shorter == Texts(alphabet, n - 1)
         IN shorter \cup {Append(t, c) : t \in shorter, c \in alphabet}

OBrien == <<"O", "'", "B", "r", "i", "e", "n">>

\* values the driver hands to Scan
Values ==
    {Nil, Int64(0), Int64(-7), Int64(42),
     Float64(15, 1), Float64(-25, 2), Float64(3, 0), FloatSpecial(<<"N", "a", "N">>),
     Bool(TRUE), Bool(FALSE),
     String(NullToken), String(OBrien), Bytes(<<"1", "2">>), Bytes(NullToken)}
    \cup {String(t) : t \in Texts({"a", "'"}, MaxStrLen)}
    \cup {Time(clock, zone) : clock \in {0, 5, 37800}, zone \in {<<>>, ZoneUTC}}

Rows == UNION {[1..n -> Values] : n \in 1..MaxCols}

EncInit ==
    /\ NoJob
    /\ NoPath
    /\ NoCompress
    /\ NoSequence
    /\ NoTable
    /\ values \in Rows
    /\ encoded = {}
    /\ insertStmt = <<>>
    /\ valueParams = <<>>
    /\ copyLine = <<>>

\* lines 889-935: one row of broadcastTableRecordsINSERT
encodeINSERT ==
    /\ "insert" \notin encoded
    /\ insertStmt' = InsertStatement(values)
    /\ encoded' = encoded \cup {"insert"}
    /\ UNCHANGED <<db, pathVars, compVars, response, opt, fs, out, pack, jobVars, loopVars, streamVars, nfk,
                   lockCreated, values, valueParams, copyLine, seqVars, tabVars>>

\* lines 972-1017: one row of broadcastTableRecordsCOPY
encodeCOPY ==
    /\ "copy" \notin encoded
    /\ valueParams' = CopyValues(values, 1)
    /\ copyLine' = CopyLineText(values)
    /\ encoded' = encoded \cup {"copy"}
    /\ UNCHANGED <<db, pathVars, compVars, response, opt, fs, out, pack, jobVars, loopVars, streamVars, nfk,
                   lockCreated, values, insertStmt, seqVars, tabVars>>

EncNext ==
    \/ encodeINSERT
    \/ encodeCOPY

EncSpec == EncInit /\ [][EncNext]_vars

----------------------------------------------------------------------------
(* One sequence through getSequenceStatements *)

SeqInit ==
    /\ NoJob
    /\ NoPath
    /\ NoCompress
    /\ NoRow
    /\ NoTable
    /\ sequence \in SequenceRows
    /\ seqStmt = <<>>

\* lines 723-761: one iteration of the loop over the sequences
getSequenceStatements ==
    /\ seqStmt = <<>>
    /\ seqStmt' = createStmt(sequence)
    /\ UNCHANGED <<db, pathVars, compVars, response, opt, fs, out, pack, jobVars, loopVars, streamVars, nfk,
                   lockCreated, rowVars, sequence, tabVars>>

SeqNext == getSequenceStatements

SeqSpec == SeqInit /\ [][SeqNext]_vars

----------------------------------------------------------------------------
(* One table through getCreateTableStatement *)

TabInit ==
    /\ NoJob
    /\ NoPath
    /\ NoCompress
    /\ NoRow
    /\ NoSequence
    /\ columns \in TableColumns
    /\ pgType \in PgTypes
    /\ colRows = <<>>
    /\ nread = 0
    /\ tpc = "query"
    /\ createTable = [err |-> NoError, defs |-> <<>>]

tabFrame ==
    <<db, pathVars, compVars, response, opt, fs, out, pack, jobVars, loopVars, streamVars, nfk, lockCreated,
      rowVars, seqVars, columns, pgType>>

\* lines 382-401: the column query
queryColumns ==
    /\ tpc = "query"
    /\ \/ /\ createTable' = [err |-> "query failed", defs |-> <<>>]
          /\ tpc' = "done"
          /\ UNCHANGED <<colRows, nread>>
       \/ /\ colRows' \in QueryResults(columns, pgType)
          /\ tpc' = "rows"
          /\ UNCHANGED <<createTable, nread>>
    /\ UNCHANGED tabFrame

\* lines 403-479: the loop over the rows and the statement; rows.Next may stop
\* before the last row, and rows.Err is not looked at
scanColumns ==
    /\ tpc = "rows"
    /\ \/ \E k \in 1..Len(colRows) :
             \* rows.Scan fails on row k
             /\ nread' = k
             /\ createTable' =
                   LET before == ColumnDefs(SubSeq(colRows, 1, k - 1))
                   IN IF before.err # NoError THEN before
                      ELSE [err |-> "scan failed", defs |-> <<>>]
       \/ \E k \in 0..Len(colRows) :
             \* rows.Next returns false after k rows
             /\ nread' = k
             /\ createTable' = CreateTable(SubSeq(colRows, 1, k))
    /\ tpc' = "done"
    /\ UNCHANGED colRows
    /\ UNCHANGED tabFrame

TabNext ==
    \/ queryColumns
    \/ scanColumns

TabSpec == TabInit /\ [][TabNext]_vars

----------------------------------------------------------------------------
(* Two Pack jobs on one output path: init, the body of Pack and cleanup of    *)
(* each job, step by step, on the files they share                            *)

Jobs == {1, 2}

PathInit ==
    /\ NoJob
    /\ NoCompress
    /\ NoRow
    /\ NoSequence
    /\ NoTable
    /\ jobs \in [Jobs -> [RecordMode : RecordModeInputs, pc : {"idle"}, result : {"none"},
                          response : {NotAsked}]]
    /\ disk \in [out : BOOLEAN, lock : {FALSE}]

pathFrame ==
    <<db, compVars, response, opt, fs, out, pack, jobVars, loopVars, streamVars, nfk, lockCreated,
      rowVars, seqVars, tabVars>>

\* job j ends without its deferred cleanup: Pack returns before line 127, or the
\* process exits
JobEnds(j, res) == jobs' = [jobs EXCEPT ![j].pc = "ended", ![j].result = res]

JobGoes(j, at) == jobs' = [jobs EXCEPT ![j].pc = at]

\* Manager.init, lines 78-88: the mode check, os.Stat and the prompt
jobStat(j) ==
    /\ jobs[j].pc = "idle"
    /\ IF ToLower(jobs[j].RecordMode) \notin {ModeInsert, ModeCopy}
       THEN JobEnds(j, "cannot initialize pack job: invalid value for record mode")
       ELSE IF disk.out
            THEN \E r \in Responses :
                    jobs' = [jobs EXCEPT ![j].pc = "prompt", ![j].response = r]
            ELSE JobGoes(j, "writeOutput")
    /\ UNCHANGED disk
    /\ UNCHANGED pathFrame

\* Manager.init, lines 89-95: the answer
jobAnswer(j) ==
    /\ jobs[j].pc = "prompt"
    /\ IF Answer(jobs[j].response) = <<"y">>
       THEN JobGoes(j, "writeOutput")
       ELSE JobEnds(j, "exit0")
    /\ UNCHANGED disk
    /\ UNCHANGED pathFrame

\* Manager.init, lines 97-100: os.WriteFile of the output file
jobWriteOutput(j) ==
    /\ jobs[j].pc = "writeOutput"
    /\ \/ /\ JobEnds(j, "cannot initialize pack job: cannot write to output file")
          /\ UNCHANGED disk
       \/ /\ disk' = [disk EXCEPT !.out = TRUE]
          /\ JobGoes(j, "writeLock")
    /\ UNCHANGED pathFrame

\* Manager.init, lines 102-104: os.WriteFile of the lock file; init has
\* succeeded and Pack defers cleanup (line 127)
jobWriteLock(j) ==
    /\ jobs[j].pc = "writeLock"
    /\ \/ /\ JobEnds(j, "cannot initialize pack job: cannot create lock file")
          /\ UNCHANGED disk
       \/ /\ disk' = [disk EXCEPT !.lock = TRUE]
          /\ JobGoes(j, "pack")
    /\ UNCHANGED pathFrame

\* Pack, lines 129-326: the job writes its script and returns, with or without
\* an error; with compression the output file may be removed (line 321), and
\* log.Fatal (line 305) ends the process
jobPack(j) ==
    /\ jobs[j].pc = "pack"
    /\ \/ /\ \E res \in {"ok", "error"} :
                jobs' = [jobs EXCEPT ![j].pc = "cleanup", ![j].result = res]
          /\ UNCHANGED disk
       \/ /\ jobs' = [jobs EXCEPT ![j].pc = "cleanup", ![j].result = "ok"]
          /\ disk' = [disk EXCEPT !.out = FALSE]
       \/ /\ JobEnds(j, "fatal")
          /\ UNCHANGED disk
    /\ UNCHANGED pathFrame

\* the deferred Manager.cleanup, lines 114-120: os.Remove of the lock file
jobCleanup(j) ==
    /\ jobs[j].pc = "cleanup"
    /\ disk' = [disk EXCEPT !.lock = FALSE]
    /\ JobGoes(j, "ended")
    /\ UNCHANGED pathFrame

PathNext ==
    \E j \in Jobs :
        \/ jobStat(j)
        \/ jobAnswer(j)
        \/ jobWriteOutput(j)
        \/ jobWriteLock(j)
        \/ jobPack(j)
        \/ jobCleanup(j)

PathSpec == PathInit /\ [][PathNext]_vars

----------------------------------------------------------------------------
(* The compression step (lines 293-324) on files named by their paths *)

RECURSIVE Split(_, _)
\* strings.Split(s, sep) for a one-character sep
Split(s, sep) ==
    IF \A i \in DOMAIN s : s[i] # sep THEN <<s>>
    ELSE LET i == CHOOSE k \in DOMAIN s : s[k] = sep /\ \A m \in 1..(k - 1) : s[m] # sep
         IN <<SubSeq(s, 1, i - 1)>> \o Split(SubSeq(s, i + 1, Len(s)), sep)

DotPack == <<".", "p", "a", "c", "k">>

\* lines 294-300: the path of the compressed file
compOutFilename(name) ==
    LET segments == Split(name, ".")
        fileNameSegments == IF Len(segments) = 1 THEN Append(segments, <<>>) ELSE segments
    IN Join(SubSeq(fileNameSegments, 1, Len(fileNameSegments) - 1), <<".">>) \o DotPack

\* the parts of a filename between its dots
Segments == {<<>>, <<"d">>, <<"s", "q", "l">>, <<"p", "a", "c", "k">>}

\* the output filenames of the model (src/cmd/root.go, the output argument)
Filenames ==
    {Join(segs, <<".">>) :
        segs \in {q \in UNION {[1..n -> Segments] : n \in 1..MaxSegments} :
                    \E i \in DOMAIN q : q[i] # <<>>}}

\* what a file holds
Script == <<"script">>
Empty == <<>>
Brotli(content, state) == <<"brotli", content, state>>

\* the files without the one at path
Removed(fm, path) == [q \in (DOMAIN fm) \ {path} |-> fm[q]]

CompInit ==
    /\ NoJob
    /\ NoRow
    /\ NoSequence
    /\ NoTable
    /\ NoPath
    /\ outputFilename \in Filenames
    /\ files = (outputFilename :> Script)
    /\ cpc = "create"
    /\ compResult = "none"

compFrame ==
    <<db, pathVars, response, opt, fs, out, pack, jobVars, loopVars, streamVars, nfk,
      lockCreated, rowVars, seqVars, tabVars, outputFilename>>

\* lines 294-302: os.Create of the compressed file, which truncates a file that
\* exists at the path; its error is discarded
compCreate ==
    /\ cpc = "create"
    /\ files' = (compOutFilename(outputFilename) :> Empty) @@ files
    /\ cpc' = "open"
    /\ UNCHANGED compResult
    /\ UNCHANGED compFrame

\* lines 303-311: os.Open of the output file; log.Fatal when it fails
compOpen ==
    /\ cpc = "open"
    /\ \/ /\ compResult' = "fatal"
          /\ cpc' = "ended"
       \/ /\ cpc' = "copy"
          /\ UNCHANGED compResult
    /\ UNCHANGED files
    /\ UNCHANGED compFrame

\* lines 314-319: io.Copy of what the output file holds into the brotli writer
compCopy ==
    /\ cpc = "copy"
    /\ LET comp == compOutFilename(outputFilename)
       IN \/ /\ files' = [files EXCEPT ![comp] = Brotli(files[outputFilename], "partial")]
             /\ compResult' = "error while compressing pack file"
             /\ cpc' = "defers"
          \/ /\ files' = [files EXCEPT ![comp] = Brotli(files[outputFilename], "buffered")]
             /\ cpc' = "remove"
             /\ UNCHANGED compResult
    /\ UNCHANGED compFrame

\* lines 321-326: os.Remove of the output file, then return nil
compRemove ==
    /\ cpc = "remove"
    /\ \/ /\ compResult' = "error while deleting plain pack file"
          /\ UNCHANGED files
       \/ /\ files' = Removed(files, outputFilename)
          /\ compResult' = "ok"
    /\ cpc' = "defers"
    /\ UNCHANGED compFrame

\* the deferred writer.Close (line 311) flushes into the compressed file, which
\* is at its path only if it was not removed; then compOutFile.Close (line 302)
compDeferred ==
    /\ cpc = "defers"
    /\ LET comp == compOutFilename(outputFilename)
       IN files' = IF comp \in DOMAIN files /\ files[comp][3] = "buffered"
                   THEN [files EXCEPT ![comp] = Brotli(files[comp][2], "complete")]
                   ELSE files
    /\ cpc' = "ended"
    /\ UNCHANGED compResult
    /\ UNCHANGED compFrame

CompNext ==
    \/ compCreate
    \/ compOpen
    \/ compCopy
    \/ compRemove
    \/ compDeferred

CompSpec == CompInit /\ [][CompNext]_vars

----------------------------------------------------------------------------
(* Reading the output script *)

Ended == pc = "ended"
Success == Ended /\ result = "ok"

Kind(it) == it[1]
IsBanner(it) == Kind(it) \in {"START", "END"}

Sections ==
    <<"DROPPING TABLES", "CREATING TYPES", "DOMAINS", "FUNCTIONS", "SEQUENCES",
      "CREATING TABLES", "RECORDS", "CONSTRAINTS">>

\* the section a statement belongs in
SectionOf(kind) ==
    CASE kind = "drop" -> "DROPPING TABLES"
      [] kind = "types" -> "CREATING TYPES"
      [] kind = "domains" -> "DOMAINS"
      [] kind = "functions" -> "FUNCTIONS"
      [] kind = "sequences" -> "SEQUENCES"
      [] kind = "create" -> "CREATING TABLES"
      [] kind \in {"Table:", "record"} -> "RECORDS"
      [] kind \in {"Constraint: PRIMARY KEY", "pk", "Constraint: FOREIGN KEY", "fk"} -> "CONSTRAINTS"
      [] OTHER -> "none"

\* the banners a schema's sections make, in the order of the specification
SchemaBanners(s) ==
    [i \in 1..(2 * Len(Sections)) |->
        IF i % 2 = 1 THEN Start(s, Sections[(i + 1) \div 2]) ELSE End(s, Sections[i \div 2])]

RECURSIVE ExpectedBanners(_)
ExpectedBanners(q) ==
    IF q = <<>> THEN <<>> ELSE SchemaBanners(Head(q)) \o ExpectedBanners(Tail(q))

Banners(o) == SelectSeq(o, IsBanner)

\* the index of the last banner before position i of o, 0 if there is none
LastBannerBefore(o, i) ==
    LET B == {j \in 1..(i - 1) : IsBanner(o[j])}
    IN IF B = {} THEN 0 ELSE CHOOSE j \in B : \A k \in B : k <= j

\* the statement at position i lies in the open section of its kind
InItsSection(o, i) ==
    LET b == LastBannerBefore(o, i)
    IN /\ b > 0
       /\ o[b][1] = "START"
       /\ o[b][4] = SectionOf(Kind(o[i]))
       /\ o[i][2] \in {"", o[b][2]}

\* C1: once a job that created the lock artifact has ended (returned or
\* terminated the process), the lock artifact no longer exists.
C1_LockRemovedAtEnd == (Ended /\ lockCreated) => ~fs.lock

\* the producer of the current table runs no more code that could close its channel
ProducerStopped == prod \in {"returned", "closed"}

\* C2: a producer that has stopped, for whatever reason, has closed its channel,
\* so the range loop over the channel is never left waiting on a stopped producer.
C2_StoppedProducerClosedChannel == (pc = "drain" /\ ProducerStopped) => chClosed

LoadedBefore(o, t, i) ==
    /\ \E j \in 1..(i - 1) : o[j] = Item("create", t[1], t[2], "")
    /\ \E j \in 1..(i - 1) : o[j] = End(t[1], "RECORDS")

\* C4: a primary-key or foreign-key statement is written only after the CREATE
\* TABLE statement and all the records of its own table and, for a foreign key, of
\* every table it references, whatever schema that table belongs to.
C4_ConstraintsAfterLoad ==
    \A i \in DOMAIN out :
        /\ Kind(out[i]) \in {"pk", "fk"} => LoadedBefore(out, <<out[i][2], out[i][3]>>, i)
        /\ Kind(out[i]) = "fk" => \A t \in out[i][4] : LoadedBefore(out, t, i)

\* a COPY stream of k rows: the header, a line and a newline per row, the end marker
CopyStream(k) ==
    <<CopyHeader>>
    \o [i \in 1..(2 * k) |-> IF i % 2 = 1 THEN CopyLine((i + 1) \div 2) ELSE Newline]
    \o <<CopyEnd>>

\* C5: a COPY stream that sent its header has, when its channel is closed, sent the
\* header once and first, a value line and a newline per decoded row, and the end
\* marker last.
C5_CopyFraming ==
    (opt.RecordMode = ModeCopy /\ chClosed /\ sent # <<>>) =>
        \E k \in 0..MaxRows : sent = CopyStream(k)

----------------------------------------------------------------------------
(* Reading the statements of a row *)

BothEncoded == encoded = {"insert", "copy"}

\* the pieces of an INSERT statement between its head and its tail
ValuesList(stmt) == SubSeq(stmt, 2, Len(stmt) - 1)

\* literals separated by commas: the literals at the odd places
IsCommaList(l, n) ==
    /\ Len(l) = 2 * n - 1
    /\ \A i \in DOMAIN l : (i % 2 = 0) <=> (l[i] = Comma)

\* the k-th literal of an INSERT statement
InsertLit(stmt, k) == stmt[2 * k]

\* both statements have a place for every value of the row
Complete ==
    /\ Len(insertStmt) = 2 * Len(values) + 1
    /\ Len(valueParams) = Len(values)

CountOf(c, text) == Cardinality({i \in DOMAIN text : text[i] = c})

\* C6: whatever the kinds of the values of a row, the INSERT statement has one
\* literal per column, separated by commas, and the COPY line has one field per
\* column; a temporal value whose text does not parse back is no exception.
C6_RowComplete ==
    /\ "insert" \in encoded =>
          /\ Len(insertStmt) >= 2
          /\ Head(insertStmt) = InsertHead
          /\ insertStmt[Len(insertStmt)] = InsertTail
          /\ IsCommaList(ValuesList(insertStmt), Len(values))
    /\ "copy" \in encoded =>
          /\ Len(valueParams) = Len(values)
          /\ copyLine = Join(valueParams, Tab)

\* C7: for every value that is not temporal the literal of the INSERT statement
\* and the field of the COPY line are the same text.
C7_SameLiteral ==
    (BothEncoded /\ Complete) =>
        \A i \in DOMAIN values :
            values[i].kind # "time" => InsertLit(insertStmt, i) = valueParams[i]

C7_Witness ==
    /\ BothEncoded
    /\ Complete
    /\ \E i, j \in DOMAIN values :
          /\ values[i].kind = "string" /\ CountOf("'", values[i].s) = 2
          /\ values[j].kind = "bytes"
          /\ CountOf("'", valueParams[i]) = 6

RECURSIVE Unescape(_)
\* a doubled quote read back as one quote
Unescape(text) ==
    IF text = <<>> THEN <<>>
    ELSE IF Len(text) >= 2 /\ text[1] = "'" /\ text[2] = "'"
         THEN <<"'">> \o Unescape(SubSeq(text, 3, Len(text)))
         ELSE <<Head(text)>> \o Unescape(Tail(text))

\* lit is the string s between single quotes, every quote of s doubled
EscapedString(lit, s) ==
    /\ Len(lit) >= 2
    /\ lit[1] = "'" /\ lit[Len(lit)] = "'"
    /\ CountOf("'", lit) = 2 + 2 * CountOf("'", s)
    /\ Len(lit) = Len(s) + 2 + CountOf("'", s)
    /\ Unescape(SubSeq(lit, 2, Len(lit) - 1)) = s

\* C8: a string value is written between single quotes with each of its quotes
\* doubled, in both modes; O'Brien is written 'O''Brien'.
C8_StringEscaped ==
    (BothEncoded /\ Complete) =>
        \A i \in DOMAIN values :
            values[i].kind = "string" =>
                /\ EscapedString(InsertLit(insertStmt, i), values[i].s)
                /\ EscapedString(valueParams[i], values[i].s)
                /\ values[i].s = <<"O", "'", "B", "r", "i", "e", "n">> =>
                      valueParams[i] = <<"'", "O", "'", "'", "B", "r", "i", "e", "n", "'">>

C8_Witness ==
    /\ BothEncoded
    /\ values = <<String(<<"O", "'", "B", "r", "i", "e", "n">>)>>
    /\ insertStmt[2] = <<"'", "O", "'", "'", "B", "r", "i", "e", "n", "'">>
    /\ copyLine = <<"'", "O", "'", "'", "B", "r", "i", "e", "n", "'">>

CountNull(l) == Cardinality({i \in DOMAIN l : l[i] = <<"N", "U", "L", "L">>})

\* C9: a null value is written as the token NULL without quotes in both modes,
\* and no value that is not null is written as that token.
C9_NullToken ==
    BothEncoded =>
        /\ CountNull(insertStmt) = Cardinality({i \in DOMAIN values : values[i].kind = "nil"})
        /\ CountNull(valueParams) = Cardinality({i \in DOMAIN values : values[i].kind = "nil"})
        /\ Complete =>
              \A i \in DOMAIN values :
                  /\ (InsertLit(insertStmt, i) = <<"N", "U", "L", "L">>) <=> (values[i].kind = "nil")
                  /\ (valueParams[i] = <<"N", "U", "L", "L">>) <=> (values[i].kind = "nil")

C9_Witness ==
    /\ BothEncoded
    /\ Len(values) = 2
    /\ values[1].kind = "nil"
    /\ values[2] = String(<<"N", "U", "L", "L">>)
    /\ valueParams = <<<<"N", "U", "L", "L">>, <<"'", "N", "U", "L", "L", "'">>>>
    /\ InsertLit(insertStmt, 1) = <<"N", "U", "L", "L">>

----------------------------------------------------------------------------
(* Reading a CREATE SEQUENCE statement *)

Has(stmt, piece) == \E i \in DOMAIN stmt : stmt[i] = piece

RECURSIVE Number(_)
\* the number a text of digits denotes
Number(ds) ==
    IF ds = <<>> THEN 0
    ELSE 10 * Number(SubSeq(ds, 1, Len(ds) - 1)) + DigitValue(ds[Len(ds)])

\* the int64 a decimal text denotes
ParseInt64(text) ==
    LET neg == text # <<>> /\ text[1] = "-"
        ds == IF neg THEN Tail(text) ELSE text
        padded == [i \in 1..(27 - Len(ds)) |-> "0"] \o ds
    IN [neg |-> neg,
        mag |-> <<Number(SubSeq(padded, 1, 9)), Number(SubSeq(padded, 10, 18)),
                  Number(SubSeq(padded, 19, 27))>>]

\* the statement gives the bound n after the keyword
GivesBound(stmt, keyword, n) ==
    \E i \in 1..(Len(stmt) - 1) : stmt[i] = keyword /\ ParseInt64(stmt[i + 1]) = n

\* C10: the CREATE SEQUENCE statement says NO MINVALUE exactly when the minimum
\* is 1 and MINVALUE n with n the minimum otherwise; it says NO MAXVALUE exactly
\* when the maximum is 9223372036854775807 and MAXVALUE n with n the maximum
\* otherwise; each clause depends on its own bound only.
C10_SequenceBounds ==
    seqStmt # <<>> =>
        /\ Has(seqStmt, <<"\n\tNO MINVALUE">>) <=> (sequence.minimumValue = I64(FALSE, 0, 0, 1))
        /\ Has(seqStmt, <<"\n\tMINVALUE ">>) <=> ~Has(seqStmt, <<"\n\tNO MINVALUE">>)
        /\ Has(seqStmt, <<"\n\tMINVALUE ">>) =>
              GivesBound(seqStmt, <<"\n\tMINVALUE ">>, sequence.minimumValue)
        /\ Has(seqStmt, <<"\n\tNO MAXVALUE">>)
              <=> (sequence.maximumValue = I64(FALSE, 9, 223372036, 854775807))
        /\ Has(seqStmt, <<"\n\tMAXVALUE ">>) <=> ~Has(seqStmt, <<"\n\tNO MAXVALUE">>)
        /\ Has(seqStmt, <<"\n\tMAXVALUE ">>) =>
              GivesBound(seqStmt, <<"\n\tMAXVALUE ">>, sequence.maximumValue)

C10_Witness ==
    /\ seqStmt # <<>>
    /\ sequence.minimumValue = I64(FALSE, 0, 0, 1)
    /\ sequence.maximumValue = I64(FALSE, 0, 2, 147483647)
    /\ Has(seqStmt, <<"\n\tNO MINVALUE">>)
    /\ \E i \in DOMAIN seqStmt :
          /\ seqStmt[i] = <<"\n\tMAXVALUE ">>
          /\ seqStmt[i + 1] = <<"2", "1", "4", "7", "4", "8", "3", "6", "4", "7">>

----------------------------------------------------------------------------
(* Reading a CREATE TABLE statement *)

TableDone == tpc = "done"

\* the column names of the definitions, in the order of the statement
DefNames(defs) == [i \in DOMAIN defs |-> defs[i][1]]

\* every value of the type columns is there
AllResolved ==
    \A i \in DOMAIN columns : columns[i].dataType.Valid /\ columns[i].udtName.Valid

\* C11: the definitions of a synthesized CREATE TABLE statement are those of the
\* table's columns, one for each, in the order of their ordinal positions; a type
\* name that exists in more than one schema changes nothing.
C11_ColumnOrder ==
    (TableDone /\ createTable.err = NoError /\ AllResolved /\ nread = Len(colRows)) =>
        DefNames(createTable.defs) = [i \in DOMAIN columns |-> columns[i].columnName.String[1]]

\* the kinds of the items that are schema statements
SchemaStatements == {"drop", "types", "domains", "functions", "sequences", "create", "pk", "fk"}

\* C12: with the data-only option set the output holds no schema statement: no
\* DROP TABLE, CREATE TYPE, CREATE DOMAIN, CREATE FUNCTION, CREATE SEQUENCE,
\* CREATE TABLE and no constraint statement.
C12_DataOnly ==
    opt.DataOnly => \A i \in DOMAIN out : Kind(out[i]) \notin SchemaStatements

\* the job created the output script and the script is no longer there
PlainRemoved == lockCreated /\ ~fs.out

\* C13: the uncompressed script is removed only after the compressed artifact is
\* complete: created, every byte written, the compressor flushed and closed.
C13_RemovedAfterComplete == PlainRemoved => pack = "complete"

\* the record modes of the inputs that read insert or copy when case is ignored
AcceptedModes ==
    {<<"i", "n", "s", "e", "r", "t">>, <<"I", "n", "s", "e", "r", "t">>,
     <<"c", "o", "p", "y">>, <<"C", "O", "P", "Y">>}

InvalidModeError == "cannot initialize pack job: invalid value for record mode"

\* no file was created, truncated or removed and no query was issued
NothingTouched ==
    /\ ~fs.lock /\ ~fs.pack /\ ~lockCreated
    /\ out = IF fs.out THEN <<<<"old", "", "", "">>>> ELSE <<>>
    /\ pack = "none"
    /\ schemas = <<>> /\ tables = <<>>
    /\ prod = "none"

\* C14: Pack goes past its initialization only with a record mode that reads
\* insert or copy when case is ignored; with any other mode it returns the
\* configuration error and has touched no file and issued no query.
C14_RecordModeValidation ==
    /\ opt.RecordMode \notin AcceptedModes =>
          /\ pc \in {"idle", "defers", "ended"}
          /\ pc # "idle" => result = InvalidModeError
          /\ NothingTouched
    /\ result = InvalidModeError => opt.RecordMode \notin AcceptedModes

C14_Witness ==
    /\ pc = "ended"
    /\ opt.RecordMode = <<"c", "s", "v">>
    /\ result = InvalidModeError
    /\ fs = [out |-> TRUE, lock |-> FALSE, pack |-> FALSE]
    /\ out = <<<<"old", "", "", "">>>>

\* the line is y or Y between blanks
SaysYes(line) ==
    \E i \in DOMAIN line :
        /\ line[i] \in {"y", "Y"}
        /\ \A j \in DOMAIN line \ {i} : line[j] \in {" ", "\t", "\r", "\n"}

\* the output file that was there: as it was, and nothing else made
ExistingFileKept ==
    /\ fs = [out |-> TRUE, lock |-> FALSE, pack |-> FALSE]
    /\ out = <<<<"old", "", "", "">>>>
    /\ ~lockCreated
    /\ schemas = <<>> /\ tables = <<>> /\ prod = "none"

\* C15: when the output file exists and the answer is not y after trimming and
\* lower-casing, the process exits with outcome zero, the file is as it was, no
\* lock file is made and no query issued; the file is truncated only after the
\* answer y.
C15_OverwriteGate ==
    /\ [](pc = "prompt" => ExistingFileKept)
    /\ [](result = "exit0" => (pc = "ended" /\ ~SaysYes(response) /\ ExistingFileKept))
    /\ [][pc = "prompt" =>
            IF SaysYes(response) THEN result' # "exit0"
            ELSE result' = "exit0" /\ pc' = "ended"]_vars
    /\ [][(fs.out /\ out' # out /\ out = <<<<"old", "", "", "">>>>) =>
            (pc = "prompt" /\ SaysYes(response))]_vars

C15_Witness ==
    /\ result = "exit0"
    /\ pc = "ended"
    /\ response = <<"n", "\n">>
    /\ fs.out /\ ~fs.lock
    /\ out = <<<<"old", "", "", "">>>>

\* ---- C16 ----
\* the positions of Pack inside the pass over one schema
InSchemaPass ==
    pc \in {"drop", "types", "createTables", "records", "table", "drain", "write",
            "constraints"}

\* C16: a catalogue query that fails, when issued or while its rows are read,
\* ends the job with an error, so a job that goes on past the query, or that
\* reports success, works with the complete list the catalogue holds: all the
\* user schemas, and inside a schema's pass all the tables of that schema.
C16_CompleteCatalog ==
    /\ (InSchemaPass \/ result = "ok") => schemas = KeepUser(db.schemata)
    /\ InSchemaPass => tables = TablesOf(db, schemas[si])


\* ---- C17 ----
ScanFailed == scanErr > 0

\* Pack is in the range loop over the current table's channel, or has just left it
InStream == pc \in {"drain", "write", "table"}

\* the row fragments of the current table in the output, in the order written
RowsWritten ==
    LET recs == SelectSeq(out, LAMBDA it : /\ Kind(it) = "record"
                                          /\ it[2] = schemas[si]
                                          /\ it[3] = tables[ti]
                                          /\ it[4] \notin {CopyHeader, CopyEnd})
    IN [i \in DOMAIN recs |-> recs[i][4]]

\* the fragments of rows 1..n in the mode of the job
FragmentsOfRows(n) ==
    IF opt.RecordMode = ModeInsert THEN [r \in 1..n |-> <<"INSERT", r>>]
    ELSE [i \in 1..(2 * n) |-> IF i % 2 = 1 THEN <<"copy line", (i + 1) \div 2>> ELSE <<"\n", 0>>]

IsPrefix(a, b) == Len(a) <= Len(b) /\ a = SubSeq(b, 1, Len(a))

\* C17: when rows.Scan fails on a row of a table, no fragment of that row or of a
\* later row is ever built, handed over or written; when Pack leaves the table's
\* loop the fragments of all the rows before it are in the output; Pack leaves
\* the loop for the next table, never with an error, and the failure itself
\* changes neither Pack's position, its result nor the output.
C17_SwallowedDecodeError ==
    /\ []((ScanFailed /\ InStream) =>
            /\ pending = <<>>
            /\ got # NoRecord => got[2] < scanErr
            /\ IsPrefix(RowsWritten, FragmentsOfRows(scanErr - 1)))
    /\ []((ScanFailed /\ pc = "table") => RowsWritten = FragmentsOfRows(scanErr - 1))
    /\ [][(ScanFailed /\ pc = "drain" /\ pc' # pc) =>
            (pc' \in {"write", "table"} /\ result' = result)]_vars
    /\ [][(scanErr = 0 /\ scanErr' > 0) =>
            (pc' = pc /\ result' = result /\ out' = out)]_vars

\* a job that returned success although the second row of its last table failed
\* to scan: the first row is in the output and the constraints section follows
C17_Witness ==
    /\ Success
    /\ scanErr = 2
    /\ \E i, j \in DOMAIN out :
          /\ i < j
          /\ Kind(out[i]) = "record" /\ out[i][4][2] = 1
          /\ out[j] = End(out[i][2], "CONSTRAINTS")


\* ---- C18 ----
\* C18: when getCreateTableStatement returns a statement, every column row it
\* read has a definition in the statement: a row whose data type or underlying
\* type name is missing makes the call fail, it is not skipped.
C18_NoColumnDropped ==
    (TableDone /\ createTable.err = NoError) =>
        \A i \in 1..nread :
            \E j \in DOMAIN createTable.defs :
                createTable.defs[j][1] = colRows[i].columnName.String[1]


\* ---- C19 ----
\* the fragments of the current table in the output, in the order written
FragmentsWritten ==
    LET recs == SelectSeq(out, LAMBDA it : /\ Kind(it) = "record"
                                          /\ it[2] = schemas[si]
                                          /\ it[3] = tables[ti])
    IN [i \in DOMAIN recs |-> recs[i][4]]

\* the fragment Pack has received and not yet written
InHand == IF got = NoRecord THEN <<>> ELSE <<got>>

\* the row fragments among the fragments sent
RowsSent == SelectSeq(sent, LAMBDA f : f \notin {CopyHeader, CopyEnd})

\* C19: during a table's stream every fragment the producer has let go of is in
\* Pack's hands, written or about to be written, so the only fragment produced
\* and not accepted is the one on offer at the channel; Pack holds at most one
\* fragment; and the producer fetches the next row only when every fragment of
\* the rows before it has been accepted.
C19_SynchronousHandoff ==
    /\ [](InStream => sent = FragmentsWritten \o InHand)
    /\ []((InStream /\ prod = "fetch") => (pending = <<>> /\ RowsSent = FragmentsOfRows(nrow)))
    /\ [][nrow' > nrow => (pending = <<>> /\ RowsSent = FragmentsOfRows(nrow))]_vars
    /\ [][(pc = "write" /\ pc' = "write") => (sent' = sent /\ got' = got)]_vars

\* a COPY producer in the middle of its second row: the value line is accepted
\* and written, the newline is on offer
C19_Witness ==
    /\ pc = "drain"
    /\ opt.RecordMode = ModeCopy
    /\ prod = "sendRow"
    /\ nrow = 2
    /\ pending = <<Newline>>
    /\ got = NoRecord
    /\ sent = <<CopyHeader, CopyLine(1), Newline, CopyLine(2)>>


\* ---- C20 ----
\* the current producer holds the result set of its row-fetch query
HoldsRows == prod \in {"columns", "fetch", "sendHeader", "sendRow", "sendEnd", "closeCh"}

\* the producers that have not finished: the current one, and those that closed
\* their channel and have still to release their result set
LiveProducers ==
    closing + (IF prod \in {"query"} \cup {"columns", "fetch", "sendHeader", "sendRow",
                                          "sendEnd", "closeCh"} THEN 1 ELSE 0)

OpenResultSets == closing + (IF HoldsRows THEN 1 ELSE 0)

\* C20: at every moment at most one producer is alive and at most one row-fetch
\* result set is open, so a table's producer starts only when the producer
\* before it has released its result set; and when Pack has returned no
\* producer is alive or blocked.
C20_SerializedStreams ==
    /\ LiveProducers <= 1
    /\ OpenResultSets <= 1
    /\ pc \in {"defers", "ended"} => LiveProducers = 0


\* ---- C21 ----
\* the states of a job, from Pack's position: the output stream is closed at
\* the step taken from "close" (line 290)
Initializing == pc \in {"idle", "prompt", "create"}
Finalizing == pc \in {"compress", "copy", "remove"}
Over == pc \in {"defers", "ended"}
Writing == ~Initializing /\ ~Finalizing /\ ~Over

JobRank == IF Initializing THEN 1 ELSE IF Writing THEN 2 ELSE IF Finalizing THEN 3 ELSE 4

\* C21: a job only moves forward through initializing, writing, finalizing and
\* its end, and a job that is finalizing does not fail: the step it takes
\* leaves it without a result or with success.
C21_JobStateMachine ==
    /\ [][JobRank' >= JobRank]_vars
    /\ [][Finalizing => result' \in {"none", "ok"}]_vars


\* ---- C22 ----
\* the job has initialized and has not ended
Active(j) == jobs[j].pc \in {"pack", "cleanup"}

\* C22: of two jobs on one output path, taken in any interleaving, each has the
\* lock file in existence from the success of its init to its end: the end of
\* one job does not remove the lock under the other.
C22_LockTracksActivity == \A j \in DOMAIN jobs : Active(j) => disk.lock


\* ---- C23 ----
\* C23: whatever the output filename, a compression step that returns success
\* leaves the compressed file in existence, at a path other than the output
\* path, holding the compression of the finished script, and leaves no
\* uncompressed file; the file being read is never the file being created.
C23_CompressedArtifact ==
    /\ cpc \notin {"idle", "create"} => compOutFilename(outputFilename) # outputFilename
    /\ (cpc = "ended" /\ compResult = "ok") =>
          /\ compOutFilename(outputFilename) \in DOMAIN files
          /\ files[compOutFilename(outputFilename)] = Brotli(Script, "complete")
          /\ outputFilename \notin DOMAIN files


\* ---- C24 ----
\* the banner of table t of schema s
TableBanner(s, t) == Item("Table:", s, t, "")

\* the records of table t of schema s, one for each fragment of frags
RecordsOf(s, t, frags) == [i \in DOMAIN frags |-> Item("record", s, t, frags[i])]

\* position k of the output is a record that follows the banner of its own
\* table with nothing but records of that table in between
InOwnRun(k) ==
    \E i \in 1..(k - 1) :
        /\ out[i] = TableBanner(out[k][2], out[k][3])
        /\ \A m \in (i + 1)..k :
              Kind(out[m]) = "record" /\ out[m][2] = out[k][2] /\ out[m][3] = out[k][3]

TableStatements == {"drop", "create", "record", "pk", "fk"}

\* the tables the statements of kind `kind` name, in the order written
TablesNamed(o, kind) ==
    LET its == SelectSeq(o, LAMBDA it : Kind(it) = kind)
    IN [i \in DOMAIN its |-> <<its[i][2], its[i][3]>>]

\* C25: every statement written for a table names it with the schema whose
\* sections it lies in, and in the output of a job that returns success the
\* DROP statements name the tables the CREATE TABLE statements create, in the
\* same order.
C25_TableIdentity ==
    /\ \A i \in DOMAIN out :
          Kind(out[i]) \in TableStatements =>
              /\ LastBannerBefore(out, i) > 0
              /\ out[i][2] = out[LastBannerBefore(out, i)][2]
    /\ Success => TablesNamed(out, "drop") = TablesNamed(out, "create")


====
